---- MODULE Spec2Model ----
(***************************************************************************)
(* Plugin registration and resolution of zillow/datasets.                  *)
(*                                                                         *)
(* Two engines are modelled.                                               *)
(*  - The type-keyed engine of src/datasets/dataset_plugin.py:             *)
(*    DatasetPlugin.register, DatasetPlugin.register_executor,             *)
(*    DatasetPlugin._get_context and _default_plugin_factory.              *)
(*  - The key-set engine (register_plugin / from_keys) that the tests and  *)
(*    the plugins call; its body is not part of the source tree, so it is  *)
(*    modelled from sections 4.3 and 4.4 of the specification.             *)
(***************************************************************************)
EXTENDS Integers, FiniteSets, Sequences, TLC

VARIABLES _plugins, default_context_plugins, _executor, current_context,
          key_plugins, last, threads

vars == <<_plugins, default_context_plugins, _executor, current_context,
          key_plugins, last, threads>>

(***************************************************************************)
(* Bounds                                                                  *)
(***************************************************************************)
\* the number of StorageOptions subclasses
NumOptionTypes == 2
\* the number of entries the key-set registry can hold
MaxKeyPlugins == 2

(***************************************************************************)
(* Values                                                                  *)
(***************************************************************************)
\* datasets.context.Context is a Flag enumeration; a value is a non-empty
\* combination of flags, modelled as the set of its member flags.
Flags == {"BATCH", "STREAMING", "ONLINE"}
BATCH == {"BATCH"}
STREAMING == {"STREAMING"}
ONLINE == {"ONLINE"}
ONLINE_STREAMING == {"ONLINE", "STREAMING"}
Context == (SUBSET Flags) \ {{}}

\* A context argument as a caller passes it: a Context value, a string, or
\* None.
CtxNone == [kind |-> "none", flags |-> {}, name |-> ""]
CtxFlag(c) == [kind |-> "flag", flags |-> c, name |-> ""]
CtxName(n) == [kind |-> "name", flags |-> {}, name |-> n]

\* the Context values that resolutions and registrations are called with
ContextInputs == {BATCH, STREAMING, ONLINE, ONLINE_STREAMING}
ContextArgs == {CtxNone} \cup {CtxFlag(c) : c \in ContextInputs}
RegisterContextArgs == {CtxNone, CtxFlag(BATCH), CtxFlag(ONLINE_STREAMING)}
\* the contexts an executor reports
ExecutorContexts == {BATCH, STREAMING, ONLINE}

\* plugin classes (the wrapped_class of a registration)
Factories == {"P1", "P2"}
NoPlugin == "None"
\* StorageOptions subclasses, the keys of DatasetPlugin._plugins; 0 is None
OptionTypes == 1..NumOptionTypes
NoOptions == 0

\* An options argument of a resolution: None, or a StorageOptions instance
\* (an object with its own identity, of some StorageOptions subclass).
OptNone == [kind |-> "none", type |-> 0, id |-> ""]
OptInstance(t, i) == [kind |-> "instance", type |-> t, id |-> i]
InstanceIds == {"o1"}
OptionsArgs ==
  {OptNone} \cup {OptInstance(t, i) : t \in OptionTypes, i \in InstanceIds}

\* The other values an options argument takes: a StorageOptions subclass
\* itself (the class object, which is what the registry is keyed by), and a
\* dict from Context values to options values.
OptType(t) == [kind |-> "type", type |-> t, id |-> ""]
OptDict(m) == [kind |-> "dict", type |-> 0, id |-> "", map |-> m]
\* the values of a per-context options dict
OptionsValues ==
  {OptInstance(t, i) : t \in OptionTypes, i \in InstanceIds}
    \cup {OptType(t) : t \in OptionTypes}
\* the contexts a per-context options dict is keyed by
DictContexts == {BATCH, STREAMING}
OptionsDicts ==
  UNION {[cs -> OptionsValues] : cs \in SUBSET DictContexts}

\* the installable executors; "unset" is the class attribute that was only
\* annotated, never assigned
Executors == {"MetaflowExecutor", "TestExecutor"}
Unset == "unset"

\* a Python dict is a function; these are its operations
EmptyDict == <<>>
Has(d, k) == k \in DOMAIN d
Put(d, k, v) == [x \in (DOMAIN d) \cup {k} |-> IF x = k THEN v ELSE d[x]]

(***************************************************************************)
(* DatasetPlugin.register                                                  *)
(***************************************************************************)
Outcome(plugins, defaults, error, msg) ==
  [plugins |-> plugins, defaults |-> defaults, error |-> error, msg |-> msg]

\* inner_wrapper without its two membership tests: a later registration
\* rebinds the context default and the options key
inner_wrapper_rebind(plugins, defaults, context, options, as_default, wrapped_class) ==
  LET defaults1 == IF as_default THEN Put(defaults, context, wrapped_class)
                                 ELSE defaults
  IN  IF options # NoOptions
        THEN Outcome(Put(plugins, options, wrapped_class), defaults1, "ok", "")
        ELSE Outcome(plugins, defaults1, "ok", "")

\* the decorator body: binds wrapped_class as the default plugin of context
\* and/or under the options key
inner_wrapper(plugins, defaults, context, options, as_default, wrapped_class) ==
  LET default_taken == as_default /\ Has(defaults, context)
      defaults1 == IF as_default /\ ~default_taken
                     THEN Put(defaults, context, wrapped_class)
                     ELSE defaults
  IN  IF default_taken
        THEN Outcome(plugins, defaults, "ValueError", "already registered")
      ELSE IF options # NoOptions /\ Has(plugins, options)
        THEN Outcome(plugins, defaults1, "ValueError", "already registered")
      ELSE IF options # NoOptions
        THEN Outcome(Put(plugins, options, wrapped_class), defaults1, "ok", "")
      ELSE Outcome(plugins, defaults1, "ok", "")

\* register without the two tests of its context argument
register_unchecked(plugins, defaults, context, options, as_default, wrapped_class) ==
  inner_wrapper(plugins, defaults, context.flags, options, as_default,
                wrapped_class)

\* register(context, options, as_default_context_plugin)(wrapped_class)
register(plugins, defaults, context, options, as_default, wrapped_class) ==
  IF context.kind = "none"
    THEN Outcome(plugins, defaults, "ValueError", "context cannot be None")
  ELSE IF context.kind # "flag"
    THEN Outcome(plugins, defaults, "ValueError", "is not of type(Context)")
  ELSE inner_wrapper(plugins, defaults, context.flags, options, as_default,
                     wrapped_class)

(***************************************************************************)
(* Resolution: DatasetPlugin._get_context and _default_plugin_factory      *)
(***************************************************************************)
Resolved(error, msg, plugin, options, lookup) ==
  [error |-> error, msg |-> msg, plugin |-> plugin, options |-> options,
   lookup |-> lookup]

\* Context[name] that yields the first member for every known name
ContextByName_first(name) ==
  IF name \in Flags THEN [error |-> "ok", value |-> BATCH]
                    ELSE [error |-> "KeyError", value |-> {}]

\* Context[name]: the member of the enumeration with that name
ContextByName(name) ==
  IF name \in Flags THEN [error |-> "ok", value |-> {name}]
                    ELSE [error |-> "KeyError", value |-> {}]

\* _get_context with a fixed context in place of the executor's
_get_context_fixed(executor, executor_context, context) ==
  IF context.kind = "flag"
    THEN [error |-> "ok", value |-> context.flags]
  ELSE IF context.kind = "name" /\ context.name # ""
    THEN ContextByName(context.name)
  ELSE IF executor = Unset
    THEN [error |-> "AttributeError", value |-> {}]
  ELSE [error |-> "ok", value |-> BATCH]

\* the context a resolution runs under: the explicit one when given (a
\* Context, or the name of one), else the one the installed executor reports
_get_context(executor, executor_context, context) ==
  IF context.kind = "flag"
    THEN [error |-> "ok", value |-> context.flags]
  ELSE IF context.kind = "name" /\ context.name # ""
    THEN ContextByName(context.name)
  ELSE IF executor = Unset
    THEN [error |-> "AttributeError", value |-> {}]
  ELSE [error |-> "ok", value |-> executor_context]

\* _default_plugin_factory that falls back to the context default when the
\* type of the options is not registered
_default_plugin_factory_fallback(registered_plugins, defaults, executor, executor_context, context, options) ==
  LET got == _get_context(executor, executor_context, context)
      context_lookup == got.value
  IN  IF got.error # "ok"
        THEN Resolved(got.error, "", NoPlugin, OptNone, {})
      ELSE IF options.kind = "none" \/ ~Has(registered_plugins, options.type)
        THEN IF Has(defaults, context_lookup)
               THEN Resolved("ok", "", defaults[context_lookup], OptNone,
                             context_lookup)
               ELSE Resolved("KeyError", "", NoPlugin, OptNone, context_lookup)
      ELSE Resolved("ok", "", registered_plugins[options.type], options,
                    context_lookup)

\* plugin = registered_plugins[options] of the dict branch: the registry is
\* indexed by the entry itself, not by its type.  An instance of the
\* StorageOptions dataclass has no __hash__ (eq without frozen), so indexing
\* by it is a TypeError; a class is looked up without a membership test.
dict_entry_lookup(registered_plugins, entry, context_lookup) ==
  IF entry.kind = "instance"
    THEN Resolved("TypeError", "unhashable type", NoPlugin, OptNone,
                  context_lookup)
  ELSE IF ~Has(registered_plugins, entry.type)
    THEN Resolved("KeyError", "", NoPlugin, OptNone, context_lookup)
  ELSE Resolved("ok", "", registered_plugins[entry.type], entry,
                context_lookup)

_default_plugin_factory(registered_plugins, defaults, executor, executor_context, context, options) ==
  LET got == _get_context(executor, executor_context, context)
      context_lookup == got.value
  IN  IF got.error # "ok"
        THEN Resolved(got.error, "", NoPlugin, OptNone, {})
      ELSE IF options.kind = "none"
        THEN IF Has(defaults, context_lookup)
               THEN Resolved("ok", "", defaults[context_lookup], OptNone,
                             context_lookup)
               ELSE Resolved("KeyError", "", NoPlugin, OptNone, context_lookup)
      ELSE IF options.kind = "instance"
        THEN IF ~Has(registered_plugins, options.type)
               THEN Resolved("ValueError", "not in registered_plugins",
                             NoPlugin, OptNone, context_lookup)
               ELSE Resolved("ok", "", registered_plugins[options.type],
                             options, context_lookup)
      ELSE IF options.kind = "dict"
        THEN IF ~Has(options.map, context_lookup)
               THEN Resolved("ValueError", "not in options", NoPlugin,
                             OptNone, context_lookup)
               ELSE dict_entry_lookup(registered_plugins,
                                      options.map[context_lookup],
                                      context_lookup)
      \* neither test of the type holds: the function returns None, and the
      \* unpacking of the result in Dataset fails
      ELSE Resolved("TypeError", "cannot unpack NoneType", NoPlugin, OptNone,
                    context_lookup)

\* a constructor_keys argument: a set of argument names, or None
KeysNone == [kind |-> "none", keys |-> {}]
KeySet(ks) == [kind |-> "set", keys |-> ks]

(***************************************************************************)
(* The record of the last call: its inputs, the registry before it, and    *)
(* its outcome.                                                            *)
(***************************************************************************)
NoCall ==
  [op |-> "none", context |-> CtxNone, key |-> NoOptions,
   factory |-> NoPlugin, as_default |-> FALSE, options |-> OptNone,
   keys |-> KeysNone, args |-> {}, chosen |-> 0,
   error |-> "ok", msg |-> "", plugin |-> NoPlugin, ret_options |-> OptNone,
   lookup |-> {},
   pre_plugins |-> EmptyDict, pre_defaults |-> EmptyDict, pre_keys |-> <<>>]

(***************************************************************************)
(* Threads that run a registration.  inner_wrapper takes no lock, so a     *)
(* thread can be preempted between any two of its statements; the position *)
(* of a thread is the line of inner_wrapper it executes next.              *)
(***************************************************************************)
Threads == {"t1", "t2"}
\* the contexts the concurrent registrations are made for
ThreadContexts == {BATCH, STREAMING}
Idle ==
  [pc |-> "idle", context |-> {}, options |-> NoOptions,
   as_default |-> FALSE, wrapped_class |-> NoPlugin, error |-> ""]

(***************************************************************************)
(* State machine of the type-keyed engine                                  *)
(***************************************************************************)
Init ==
  /\ _plugins = EmptyDict
  /\ default_context_plugins = EmptyDict
  /\ _executor = Unset
  /\ current_context = {}
  /\ key_plugins = <<>>
  /\ last = NoCall
  /\ threads = [t \in Threads |-> Idle]

\* @DatasetPlugin.register(context, options, as_default_context_plugin)
\* applied to wrapped_class
RegisterCall(context, options, as_default, wrapped_class) ==
  LET r == register(_plugins, default_context_plugins, context, options,
                    as_default, wrapped_class)
  IN  /\ _plugins' = r.plugins
      /\ default_context_plugins' = r.defaults
      /\ last' = [NoCall EXCEPT !.op = "register", !.context = context,
                    !.key = options, !.factory = wrapped_class,
                    !.as_default = as_default,
                    !.error = r.error, !.msg = r.msg,
                    !.pre_plugins = _plugins,
                    !.pre_defaults = default_context_plugins]
      /\ UNCHANGED <<_executor, current_context, key_plugins, threads>>

Register ==
  \E context \in RegisterContextArgs, options \in OptionTypes \cup {NoOptions},
     as_default \in BOOLEAN, wrapped_class \in Factories :
    RegisterCall(context, options, as_default, wrapped_class)

\* the registrations of the default plugins of the single contexts
RegisterDefault ==
  \E c \in ExecutorContexts, wrapped_class \in Factories :
    RegisterCall(CtxFlag(c), NoOptions, TRUE, wrapped_class)

\* DatasetPlugin.register_executor(executor): the executor comes with the
\* context it reports
register_executor ==
  \E executor \in Executors, c \in ExecutorContexts :
    /\ _executor' = executor
    /\ current_context' = c
    /\ last' = [NoCall EXCEPT !.op = "register_executor"]
    /\ UNCHANGED <<_plugins, default_context_plugins, key_plugins, threads>>

\* the context the installed executor reports changes
\* (TestExecutor.current_context = Context.STREAMING)
SetCurrentContext ==
  \E c \in ExecutorContexts :
    /\ _executor # Unset
    /\ current_context' = c
    /\ last' = [NoCall EXCEPT !.op = "set_context"]
    /\ UNCHANGED <<_plugins, default_context_plugins, _executor, key_plugins,
                   threads>>

\* DatasetPlugin.Dataset(options=..., context=...): the plugin lookup
Dataset ==
  \E context \in ContextArgs, options \in OptionsArgs :
    LET r == _default_plugin_factory(_plugins, default_context_plugins,
                                     _executor, current_context, context,
                                     options)
    IN  /\ last' = [NoCall EXCEPT !.op = "Dataset", !.context = context,
                      !.options = options,
                      !.error = r.error, !.msg = r.msg, !.plugin = r.plugin,
                      !.ret_options = r.options, !.lookup = r.lookup,
                      !.pre_plugins = _plugins,
                      !.pre_defaults = default_context_plugins]
        /\ UNCHANGED <<_plugins, default_context_plugins, _executor,
                       current_context, key_plugins, threads>>

Next == Register \/ register_executor \/ SetCurrentContext \/ Dataset

Spec == Init /\ [][Next]_vars

\* the executor and the default plugins of the contexts it can report
NextAmbient ==
  RegisterDefault \/ register_executor \/ SetCurrentContext \/ Dataset

SpecAmbient == Init /\ [][NextAmbient]_vars

\* contexts given by name: the members, a name in the wrong case, and the
\* empty string
NamedContextArgs ==
  {CtxName(n) : n \in Flags} \cup {CtxName("streaming"), CtxName("")}
\* registrations with a context that is None, a string, or a Context
CheckedContextArgs ==
  {CtxNone, CtxName("BATCH"), CtxFlag(BATCH), CtxFlag(STREAMING)}

RegisterChecked ==
  \E context \in CheckedContextArgs, options \in OptionTypes \cup {NoOptions},
     as_default \in BOOLEAN, wrapped_class \in Factories :
    RegisterCall(context, options, as_default, wrapped_class)

\* DatasetPlugin.Dataset(options=..., context="STREAMING")
DatasetNamed ==
  \E context \in NamedContextArgs, options \in OptionsArgs :
    LET r == _default_plugin_factory(_plugins, default_context_plugins,
                                     _executor, current_context, context,
                                     options)
    IN  /\ last' = [NoCall EXCEPT !.op = "Dataset", !.context = context,
                      !.options = options,
                      !.error = r.error, !.msg = r.msg, !.plugin = r.plugin,
                      !.ret_options = r.options, !.lookup = r.lookup,
                      !.pre_plugins = _plugins,
                      !.pre_defaults = default_context_plugins]
        /\ UNCHANGED <<_plugins, default_context_plugins, _executor,
                       current_context, key_plugins, threads>>

\* contexts by name, and the tests of the context of a registration
NextNames == RegisterChecked \/ DatasetNamed

SpecNames == Init /\ [][NextNames]_vars

\* a thread calls register(context, options, as_default_context_plugin) and
\* applies the decorator to wrapped_class; the tests of the context pass
ThreadCall(t) ==
  \E context \in ThreadContexts, options \in OptionTypes \cup {NoOptions},
     as_default \in BOOLEAN, wrapped_class \in Factories :
    /\ threads[t].pc = "idle"
    /\ threads' = [threads EXCEPT ![t] =
                     [pc |-> "line115", context |-> context,
                      options |-> options, as_default |-> as_default,
                      wrapped_class |-> wrapped_class, error |-> ""]]
    /\ UNCHANGED <<_plugins, default_context_plugins, _executor,
                   current_context, key_plugins, last>>

\* if as_default_context_plugin: if context in default_context_plugins: raise
ThreadTestDefault(t) ==
  /\ threads[t].pc = "line115"
  /\ threads' = [threads EXCEPT ![t] =
       IF ~threads[t].as_default
         THEN [@ EXCEPT !.pc = "line120"]
       ELSE IF Has(default_context_plugins, threads[t].context)
         THEN [@ EXCEPT !.pc = "done", !.error = "ValueError"]
       ELSE [@ EXCEPT !.pc = "line118"]]
  /\ UNCHANGED <<_plugins, default_context_plugins, _executor,
                 current_context, key_plugins, last>>

\* default_context_plugins[context] = wrapped_class
ThreadSetDefault(t) ==
  /\ threads[t].pc = "line118"
  /\ default_context_plugins' =
       Put(default_context_plugins, threads[t].context,
           threads[t].wrapped_class)
  /\ threads' = [threads EXCEPT ![t].pc = "line120"]
  /\ UNCHANGED <<_plugins, _executor, current_context, key_plugins, last>>

\* if options: if options in cls._plugins: raise
ThreadTestOptions(t) ==
  /\ threads[t].pc = "line120"
  /\ threads' = [threads EXCEPT ![t] =
       IF threads[t].options = NoOptions
         THEN [@ EXCEPT !.pc = "done", !.error = "ok"]
       ELSE IF Has(_plugins, threads[t].options)
         THEN [@ EXCEPT !.pc = "done", !.error = "ValueError"]
       ELSE [@ EXCEPT !.pc = "line125"]]
  /\ UNCHANGED <<_plugins, default_context_plugins, _executor,
                 current_context, key_plugins, last>>

\* cls._plugins[options] = wrapped_class; return wrapped_class
ThreadSetOptions(t) ==
  /\ threads[t].pc = "line125"
  /\ _plugins' = Put(_plugins, threads[t].options, threads[t].wrapped_class)
  /\ threads' = [threads EXCEPT ![t] = [@ EXCEPT !.pc = "done",
                                                 !.error = "ok"]]
  /\ UNCHANGED <<default_context_plugins, _executor, current_context,
                 key_plugins, last>>

\* registrations from concurrent initializers
NextThreads ==
  \E t \in Threads :
    \/ ThreadCall(t)
    \/ ThreadTestDefault(t)
    \/ ThreadSetDefault(t)
    \/ ThreadTestOptions(t)
    \/ ThreadSetOptions(t)

SpecThreads == Init /\ [][NextThreads]_vars

\* registrations of the StorageOptions subclasses
RegisterTyped ==
  \E options \in OptionTypes, wrapped_class \in Factories :
    RegisterCall(CtxFlag(BATCH), options, FALSE, wrapped_class)

\* DatasetPlugin.Dataset(options=..., context=...) with a per-context dict
\* of options, or with one of the values of such a dict
DatasetDict ==
  \E c \in DictContexts,
     options \in {OptDict(m) : m \in OptionsDicts} \cup OptionsValues :
    LET r == _default_plugin_factory(_plugins, default_context_plugins,
                                     _executor, current_context, CtxFlag(c),
                                     options)
    IN  /\ last' = [NoCall EXCEPT !.op = "Dataset", !.context = CtxFlag(c),
                      !.options = options,
                      !.error = r.error, !.msg = r.msg, !.plugin = r.plugin,
                      !.ret_options = r.options, !.lookup = r.lookup,
                      !.pre_plugins = _plugins,
                      !.pre_defaults = default_context_plugins]
        /\ UNCHANGED <<_plugins, default_context_plugins, _executor,
                       current_context, key_plugins, threads>>

\* per-context options dicts
NextDict == RegisterTyped \/ DatasetDict

SpecDict == Init /\ [][NextDict]_vars

(***************************************************************************)
(* The key-set engine: register_plugin and from_keys                       *)
(* (sections 4.3 and 4.4 of the specification)                             *)
(***************************************************************************)
\* the argument names of the plugins of the tests
KeyNames == {"name", "test_name", "test_name2"}
\* the universal default key set
DefaultKeys == {"name"}

KeySetArgs ==
  {KeysNone, KeySet({"name"}), KeySet({"test_name"}),
   KeySet({"test_name", "test_name2"})}
\* ONLINE and ONLINE | STREAMING overlap under ONLINE and not under STREAMING
KeyContextArgs == {CtxNone, CtxFlag(ONLINE), CtxFlag(ONLINE_STREAMING)}

Entry(context, keys, factory) ==
  [context |-> context, keys |-> keys, factory |-> factory]

KeyOutcome(registry, error, msg) ==
  [registry |-> registry, error |-> error, msg |-> msg]

\* the entries are kept in the order of their registration
register_plugin(registry, constructor_keys, context, factory) ==
  IF constructor_keys.kind = "none"
    THEN KeyOutcome(registry, "ValueError", "constructor_keys cannot be None")
  ELSE IF context.kind = "none"
    THEN KeyOutcome(registry, "ValueError", "context cannot be None")
  ELSE IF context.kind # "flag"
    THEN KeyOutcome(registry, "ValueError", "is not of type(Context)")
  ELSE
    LET bound == {i \in 1..Len(registry) :
                    /\ registry[i].context = context.flags
                    /\ registry[i].keys = constructor_keys.keys}
    IN  IF \E i \in bound : registry[i].factory # factory
          THEN KeyOutcome(registry, "ValueError", "already registered")
        ELSE IF bound # {}
          THEN KeyOutcome(registry, "ok", "")
        ELSE KeyOutcome(
               Append(registry, Entry(context.flags, constructor_keys.keys, factory)),
               "ok", "")

\* the state of the scan of from_keys: the best specific entry so far, its
\* score, and the default entry so far (0: none)
NoMatch == [best |-> 0, bestScore |-> 0, default |-> 0]

\* step 5 with every eligible entry replacing the best one
Visit_last_eligible(acc, registry, i, argKeys) ==
  LET keySet == registry[i].keys
  IN  IF ~(keySet \subseteq argKeys) THEN acc
      ELSE IF keySet = DefaultKeys THEN [acc EXCEPT !.default = i]
      ELSE [acc EXCEPT !.best = i, !.bestScore = Cardinality(keySet \cap argKeys)]

\* step 5 with the default entry scored like any other entry
Visit_default_scored(acc, registry, i, argKeys) ==
  LET keySet == registry[i].keys
      score == Cardinality(keySet \cap argKeys)
  IN  IF ~(keySet \subseteq argKeys) THEN acc
      ELSE IF score > acc.bestScore
        THEN [acc EXCEPT !.best = i, !.bestScore = score]
      ELSE acc

\* step 5 without the subset test of 5a
Visit_no_subset(acc, registry, i, argKeys) ==
  LET keySet == registry[i].keys
      score == Cardinality(keySet \cap argKeys)
  IN  IF keySet = DefaultKeys
        THEN IF keySet \subseteq argKeys THEN [acc EXCEPT !.default = i] ELSE acc
      ELSE IF score > acc.bestScore
        THEN [acc EXCEPT !.best = i, !.bestScore = score]
      ELSE acc

\* step 5 of the algorithm, for the candidate at index i
Visit(acc, registry, i, argKeys) ==
  LET keySet == registry[i].keys
      score == Cardinality(keySet \cap argKeys)
  IN  IF ~(keySet \subseteq argKeys) THEN acc
      ELSE IF keySet = DefaultKeys THEN [acc EXCEPT !.default = i]
      ELSE IF score > acc.bestScore
        THEN [acc EXCEPT !.best = i, !.bestScore = score]
      ELSE acc

\* candidatesFor: the entry's context shares a flag with the queried one
Overlaps(registered, queried) == registered \cap queried # {}

\* steps 3 to 5: the scan of the candidates from index i on
RECURSIVE Scan(_, _, _, _, _)
Scan(acc, registry, i, context_lookup, argKeys) ==
  IF i > Len(registry) THEN acc
  ELSE Scan(IF Overlaps(registry[i].context, context_lookup)
              THEN Visit(acc, registry, i, argKeys)
              ELSE acc,
            registry, i + 1, context_lookup, argKeys)

KeyResolved(error, plugin, chosen, lookup) ==
  [error |-> error, plugin |-> plugin, chosen |-> chosen, lookup |-> lookup]

\* resolve(args, explicitContext): the plugin that is to be invoked, and the
\* index of its entry
from_keys(registry, executor, executor_context, context, argKeys) ==
  LET got == _get_context(executor, executor_context, context)
      m == Scan(NoMatch, registry, 1, got.value, argKeys)
  IN  IF got.error # "ok" THEN KeyResolved(got.error, NoPlugin, 0, {})
      ELSE IF m.best # 0
        THEN KeyResolved("ok", registry[m.best].factory, m.best, got.value)
      ELSE IF m.default # 0
        THEN KeyResolved("ok", registry[m.default].factory, m.default, got.value)
      ELSE KeyResolved("PluginNotFoundError", NoPlugin, 0, got.value)

\* @DatasetPlugin.register_plugin(constructor_keys, context)
RegisterPlugin ==
  \E constructor_keys \in KeySetArgs, context \in KeyContextArgs,
     factory \in Factories :
    LET r == register_plugin(key_plugins, constructor_keys, context, factory)
    IN  /\ Len(r.registry) <= MaxKeyPlugins
        /\ key_plugins' = r.registry
        /\ last' = [NoCall EXCEPT !.op = "register_plugin",
                      !.context = context, !.keys = constructor_keys,
                      !.factory = factory, !.error = r.error, !.msg = r.msg,
                      !.pre_keys = key_plugins]
        /\ UNCHANGED <<_plugins, default_context_plugins, _executor,
                       current_context, threads>>

\* DatasetPlugin.from_keys(context=..., **kwargs)
FromKeys ==
  \E context \in ContextArgs, argKeys \in SUBSET KeyNames :
    LET r == from_keys(key_plugins, _executor, current_context, context, argKeys)
    IN  /\ last' = [NoCall EXCEPT !.op = "from_keys", !.context = context,
                      !.args = argKeys, !.error = r.error, !.plugin = r.plugin,
                      !.chosen = r.chosen, !.lookup = r.lookup,
                      !.pre_keys = key_plugins]
        /\ UNCHANGED <<_plugins, default_context_plugins, _executor,
                       current_context, key_plugins, threads>>

NextKeys == RegisterPlugin \/ FromKeys

SpecKeys == Init /\ [][NextKeys]_vars

TypeOK ==
  /\ DOMAIN _plugins \subseteq OptionTypes
  /\ DOMAIN default_context_plugins \subseteq Context
  /\ _executor \in Executors \cup {Unset}

(***************************************************************************)
(* Registration claims                                                     *)
(***************************************************************************)
\* the last call was the decorator of register applied to a class
Registered == last.op = "register" /\ last.context.kind = "flag"

\* the options key of the call was bound before it, to this factory
KeyBoundTo(f) ==
  /\ last.key # NoOptions
  /\ Has(last.pre_plugins, last.key)
  /\ last.pre_plugins[last.key] = f

\* the call asked for the context default, and the context had this default
DefaultBoundTo(f) ==
  /\ last.as_default
  /\ Has(last.pre_defaults, last.context.flags)
  /\ last.pre_defaults[last.context.flags] = f

KeyRebound == \E f \in Factories \ {last.factory} : KeyBoundTo(f)
DefaultRebound == \E f \in Factories \ {last.factory} : DefaultBoundTo(f)

\* C1: a registration whose options key, or whose context default, is
\* already bound to a different factory fails in the registration call with
\* a ValueError that says "already registered", and the earlier binding is
\* still the one in the registry.
C1_ConflictFailsAtRegistration ==
  /\ (Registered /\ (KeyRebound \/ DefaultRebound)) =>
        (last.error = "ValueError" /\ last.msg = "already registered")
  /\ (Registered /\ KeyRebound) =>
        (Has(_plugins, last.key) /\ _plugins[last.key] = last.pre_plugins[last.key])
  /\ (Registered /\ DefaultRebound) =>
        /\ Has(default_context_plugins, last.context.flags)
        /\ default_context_plugins[last.context.flags] =
             last.pre_defaults[last.context.flags]

C1_Witness ==
  /\ Registered
  /\ KeyRebound
  /\ ~last.as_default
  /\ last.error = "ValueError"

\* C2: a registration that repeats a binding the registry already holds
\* (same options key, same context default, same factory) succeeds and
\* leaves the registry as it was.
C2_SameFactoryIsNoOp ==
  (/\ Registered
   /\ last.key # NoOptions \/ last.as_default
   /\ last.key # NoOptions => KeyBoundTo(last.factory)
   /\ last.as_default => DefaultBoundTo(last.factory))
  => (/\ last.error = "ok"
      /\ _plugins = last.pre_plugins
      /\ default_context_plugins = last.pre_defaults)

\* C3: a registration that fails leaves the key-to-factory map and the
\* default-factory table as they were before the call.
C3_FailedRegistrationChangesNothing ==
  (last.op = "register" /\ last.error # "ok")
  => (/\ _plugins = last.pre_plugins
      /\ default_context_plugins = last.pre_defaults)

(***************************************************************************)
(* Resolution claims of the type-keyed engine                              *)
(***************************************************************************)
\* the last call was a resolution whose context could be determined
Looked == last.op = "Dataset" /\ (last.context.kind = "flag" \/ _executor # Unset)

\* the context that resolution is to run under
ResolvedContext ==
  IF last.context.kind = "flag" THEN last.context.flags ELSE current_context

\* the contexts with a default plugin that share a flag with c
DefaultContextsFor(c) == {d \in DOMAIN last.pre_defaults : d \cap c # {}}

\* C4: the default plugin registered under ONLINE | STREAMING is the one a
\* request without options gets under ONLINE, under STREAMING and under
\* ONLINE | STREAMING (when no other default is registered for these), and
\* a request under BATCH alone never gets a plugin when no default is
\* registered for BATCH.
C4_ContextOverlap ==
  (Looked /\ last.options.kind = "none") =>
    /\ (/\ ResolvedContext \in {ONLINE, STREAMING, ONLINE_STREAMING}
        /\ DefaultContextsFor(ResolvedContext) = {ONLINE_STREAMING})
       => (/\ last.error = "ok"
           /\ last.plugin = last.pre_defaults[ONLINE_STREAMING])
    /\ (ResolvedContext = BATCH /\ DefaultContextsFor(BATCH) = {})
       => last.plugin = NoPlugin

\* C8: a resolution that matches no registered plugin (no options and no
\* default for the resolved context, or options of a type that is not
\* registered, and no default either) fails with the one error of a missing
\* plugin, the ValueError of _default_plugin_factory, and returns no plugin.
C8_NoMatchFailsWithNotFound ==
  (/\ Looked
   /\ ~Has(last.pre_defaults, ResolvedContext)
   /\ last.options.kind = "none" \/ ~Has(last.pre_plugins, last.options.type))
  => (last.error = "ValueError" /\ last.plugin = NoPlugin)

\* C9: without options the resolution returns the default plugin of the
\* resolved context and no options; with options of a registered type it
\* returns the plugin bound to the type and the very options it was given;
\* with options of a type that is not registered it fails with the
\* ValueError of a missing plugin.
C9_TypeKeyedResolution ==
  Looked =>
    /\ (last.options.kind = "none" /\ Has(last.pre_defaults, ResolvedContext))
       => (/\ last.error = "ok"
           /\ last.plugin = last.pre_defaults[ResolvedContext]
           /\ last.ret_options = OptNone)
    /\ (last.options.kind = "instance" /\ Has(last.pre_plugins, last.options.type))
       => (/\ last.error = "ok"
           /\ last.plugin = last.pre_plugins[last.options.type]
           /\ last.ret_options = last.options)
    /\ (last.options.kind = "instance" /\ ~Has(last.pre_plugins, last.options.type))
       => (/\ last.error = "ValueError"
           /\ last.msg = "not in registered_plugins"
           /\ last.plugin = NoPlugin)

C9_Witness ==
  /\ Looked
  /\ last.options.kind = "instance"
  /\ Has(last.pre_plugins, last.options.type)
  /\ Has(last.pre_defaults, ResolvedContext)
  /\ last.pre_defaults[ResolvedContext] # last.pre_plugins[last.options.type]
  /\ last.plugin = last.pre_plugins[last.options.type]

\* C10: a resolution without an explicit context runs under the context the
\* installed executor reports when it is called, and gets the default plugin
\* of that context; a resolution with an explicit context runs under that
\* context whatever the executor reports.
C10_AmbientContext ==
  (last.op = "Dataset" /\ _executor # Unset) =>
    LET c == IF last.context.kind = "none" THEN current_context
                                          ELSE last.context.flags
    IN  /\ last.lookup = c
        /\ last.options.kind = "none" =>
              IF Has(default_context_plugins, c)
                THEN last.error = "ok" /\ last.plugin = default_context_plugins[c]
                ELSE last.plugin = NoPlugin

C10_Witness ==
  /\ last.op = "Dataset"
  /\ _executor = "TestExecutor"
  /\ last.context.kind = "none"
  /\ last.options.kind = "none"
  /\ current_context = STREAMING
  /\ Has(default_context_plugins, BATCH)
  /\ Has(default_context_plugins, STREAMING)
  /\ default_context_plugins[BATCH] # default_context_plugins[STREAMING]
  /\ last.plugin = default_context_plugins[STREAMING]

(***************************************************************************)
(* Resolution claims of the key-set engine                                 *)
(***************************************************************************)
\* the last call was a from_keys whose context could be determined
KeyLooked ==
  last.op = "from_keys" /\ (last.context.kind = "flag" \/ _executor # Unset)

\* the entries registered for the resolved context
Candidates ==
  {i \in 1..Len(last.pre_keys) :
     last.pre_keys[i].context \cap ResolvedContext # {}}

\* the candidates whose key set the request covers: the default ones and
\* the specific ones
EligibleDefaults ==
  {i \in Candidates : /\ last.pre_keys[i].keys = {"name"}
                      /\ "name" \in last.args}
EligibleSpecific ==
  {i \in Candidates : /\ last.pre_keys[i].keys # {"name"}
                      /\ last.pre_keys[i].keys \subseteq last.args}

Score(i) == Cardinality(last.pre_keys[i].keys \cap last.args)

\* C5: when two or more specific plugins of the resolved context are
\* eligible, the one that is selected is eligible and no other eligible one
\* has a larger intersection with the argument keys, whatever the order of
\* the registrations.
C5_BestMatch ==
  (KeyLooked /\ Cardinality(EligibleSpecific) >= 2) =>
    /\ last.error = "ok"
    /\ last.chosen \in EligibleSpecific
    /\ last.plugin = last.pre_keys[last.chosen].factory
    /\ \A j \in EligibleSpecific : Score(j) <= Score(last.chosen)

\* {test_name, test_name2} was registered before {test_name} and is chosen
C5_Witness ==
  /\ KeyLooked
  /\ last.args = {"test_name", "test_name2"}
  /\ \E i, j \in EligibleSpecific :
       /\ i < j
       /\ last.pre_keys[i].keys = {"test_name", "test_name2"}
       /\ last.pre_keys[j].keys = {"test_name"}
       /\ last.pre_keys[i].factory # last.pre_keys[j].factory
       /\ last.chosen = i

\* C6: when a default plugin is registered for the resolved context, a
\* default plugin is the one selected exactly when the request has the
\* argument name and no specific plugin of the resolved context is
\* eligible, whatever the order of the registrations.
C6_DefaultOnlyAsFallback ==
  (KeyLooked /\ \E i \in Candidates : last.pre_keys[i].keys = {"name"}) =>
    ((/\ last.error = "ok"
      /\ last.chosen \in Candidates
      /\ last.pre_keys[last.chosen].keys = {"name"})
     <=> ("name" \in last.args /\ EligibleSpecific = {}))

\* the default was registered after the specific plugin, both are eligible,
\* and the specific one is chosen
C6_Witness ==
  /\ KeyLooked
  /\ last.args = {"name", "test_name"}
  /\ \E i \in EligibleSpecific, d \in EligibleDefaults :
       /\ i < d
       /\ last.pre_keys[i].factory # last.pre_keys[d].factory
       /\ last.chosen = i

\* C7: the plugin a resolution selects is that of an entry registered for
\* the resolved context whose key set is a subset of the argument keys.
C7_SubsetLaw ==
  (last.op = "from_keys" /\ last.error = "ok") =>
    /\ last.chosen \in Candidates
    /\ last.pre_keys[last.chosen].keys \subseteq last.args
    /\ last.plugin = last.pre_keys[last.chosen].factory

\* a plugin that needs test_name2 as well is registered, the request has
\* test_name only, and the plugin for {test_name} is chosen
C7_Witness ==
  /\ KeyLooked
  /\ last.error = "ok"
  /\ last.args = {"test_name"}
  /\ \E i \in Candidates : last.pre_keys[i].keys = {"test_name", "test_name2"}
  /\ last.pre_keys[last.chosen].keys = {"test_name"}

\* C11: a resolution without an explicit context that is issued while no
\* executor has been installed runs under the default context BATCH; it does
\* not fail for the lack of an executor.
C11_ContextAlwaysDefined ==
  (last.op = "Dataset" /\ last.context.kind = "none" /\ _executor = Unset)
  => (last.error # "AttributeError" /\ last.lookup = BATCH)

\* C12: a resolution whose context is given as the name of a member of the
\* enumeration runs under that member and has the outcome (plugin, options,
\* or error) of the resolution with the member itself as context.
C12_ContextByName ==
  (/\ last.op = "Dataset"
   /\ last.context.kind = "name"
   /\ last.context.name \in Flags)
  => LET byFlag == _default_plugin_factory(
                     last.pre_plugins, last.pre_defaults, _executor,
                     current_context, CtxFlag({last.context.name}),
                     last.options)
     IN  /\ last.lookup = {last.context.name}
         /\ last.error = byFlag.error
         /\ last.plugin = byFlag.plugin
         /\ last.ret_options = byFlag.options

C12_Witness ==
  /\ last.op = "Dataset"
  /\ last.context = CtxName("STREAMING")
  /\ last.options.kind = "none"
  /\ Has(last.pre_defaults, BATCH)
  /\ Has(last.pre_defaults, STREAMING)
  /\ last.pre_defaults[BATCH] # last.pre_defaults[STREAMING]
  /\ last.plugin = last.pre_defaults[STREAMING]

\* C13: a registration whose context is None or is not a Context fails with
\* a ValueError ("context cannot be None" for None) whatever the class and
\* the other arguments, and changes neither the key-to-factory map nor the
\* default-factory table.
C13_ContextChecked ==
  (last.op = "register" /\ last.context.kind # "flag") =>
    /\ last.error = "ValueError"
    /\ last.context.kind = "none" => last.msg = "context cannot be None"
    /\ last.context.kind # "none" => last.msg = "is not of type(Context)"
    /\ _plugins = last.pre_plugins
    /\ default_context_plugins = last.pre_defaults

C13_Witness ==
  /\ last.op = "register"
  /\ last.context.kind = "none"
  /\ last.as_default
  /\ last.key # NoOptions
  /\ ~Has(_plugins, last.key)
  /\ last.msg = "context cannot be None"

\* C14: a registration that names no registry key (options None) fails with
\* the ValueError "constructor_keys cannot be None"; it is not a successful
\* call.
C14_KeyRequired ==
  (last.op = "register" /\ last.context.kind = "flag" /\ last.key = NoOptions)
  => (/\ last.error = "ValueError"
      /\ last.msg = "constructor_keys cannot be None")

\* C16: the registry is append-only: every key of the key-to-factory map and
\* every context of the default-factory table keeps its factory, a binding
\* appears only by a successful registration and is bound to that call's
\* factory, and a step that is not a registration changes neither table.
C16_AppendOnly ==
  [][/\ \A k \in DOMAIN _plugins :
          Has(_plugins', k) /\ _plugins'[k] = _plugins[k]
     /\ \A c \in DOMAIN default_context_plugins :
          /\ Has(default_context_plugins', c)
          /\ default_context_plugins'[c] = default_context_plugins[c]
     /\ \A k \in DOMAIN _plugins' \ DOMAIN _plugins :
          /\ last'.op = "register" /\ last'.error = "ok"
          /\ _plugins'[k] = last'.factory
     /\ \A c \in DOMAIN default_context_plugins' \ DOMAIN default_context_plugins :
          /\ last'.op = "register" /\ last'.error = "ok"
          /\ default_context_plugins'[c] = last'.factory
     /\ last'.op # "register" =>
          UNCHANGED <<_plugins, default_context_plugins>>]_vars

\* C17: a resolution with a per-context options dict m under the context c,
\* m[c] a StorageOptions instance, gives what the resolution with
\* options = m[c] gives, the plugin registered
\* for the type of m[c] together with m[c]; when c is not a key of m it fails
\* with a ValueError and yields no plugin.
C17_DictResolvesLikeEntry ==
  (last.op = "Dataset" /\ last.options.kind = "dict")
  => LET m == last.options.map
         c == last.lookup
     IN  IF Has(m, c)
           THEN LET entry == _default_plugin_factory(
                               last.pre_plugins, last.pre_defaults, _executor,
                               current_context, last.context, m[c])
                IN  m[c].kind = "instance"
                    => /\ last.error = entry.error
                       /\ last.plugin = entry.plugin
                       /\ last.ret_options = entry.options
                       /\ Has(last.pre_plugins, m[c].type)
                            => /\ last.plugin = last.pre_plugins[m[c].type]
                               /\ last.ret_options = m[c]
           ELSE last.error = "ValueError" /\ last.plugin = NoPlugin

\* C15: when two registrations from different threads have both returned,
\* the registry holds every key a successful one registered, and of two calls
\* for the same context that bind the same key, or both the default of the
\* context, to different classes exactly one succeeded.
C15_ConcurrentRegistration ==
  (\A t \in Threads : threads[t].pc = "done")
  => /\ \A t \in Threads :
          (threads[t].error = "ok" /\ threads[t].options # NoOptions)
          => Has(_plugins, threads[t].options)
     /\ \A t, u \in Threads :
          (/\ t # u
           /\ threads[t].wrapped_class # threads[u].wrapped_class
           /\ threads[t].context = threads[u].context
           /\ \/ /\ threads[t].options # NoOptions
                 /\ threads[t].options = threads[u].options
              \/ threads[t].as_default /\ threads[u].as_default)
          => (threads[t].error = "ok") # (threads[u].error = "ok")

====
